---- MODULE Spec2Model ----
(***************************************************************************)
(* Model of src/app.py (tw-stock-dashboard): the indicator computation of  *)
(* get_stock_data (MACD 12/26/9 and recursive KD 9/3/3), its 60 second     *)
(* result cache, and the page script that calls it for "^TWII" and "WTX=F".*)
(*                                                                         *)
(* Numbers.  The data frame holds floats.  A float is modelled as an exact *)
(* rational [k |-> "fin", n, d] in lowest terms with d > 0, or one of the  *)
(* three IEEE specials NaN, +inf, -inf; rounding error is not modelled.    *)
(* Indices.  Python index i (0-based) is index i+1 of a TLA+ sequence.     *)
(***************************************************************************)
EXTENDS Integers, Sequences, FiniteSets, TLC

VARIABLES
    dl,        \* engine run: the frame yf.download hands to get_stock_data
    ret,       \* engine run: what get_stock_data returned (Pending before)
    pc,        \* per session: position of the script run
    clicked,   \* per session: the run was started by the refresh button
    held,      \* per session: df_tse / df_future of the block being executed
    shown,     \* per session: elements the current run has put on the page
    reached,   \* per session and symbol: block not entered, entered, or the
               \* kind of result it went on with
    lastCall,  \* per session: latest get_stock_data call of the run
    cache,     \* per cache object of get_stock_data: the entry of each symbol
    lock,      \* per cache object and symbol: the session computing, or "free"
    ref,       \* per session: the cache object its pending call started with
    now,       \* wall clock, seconds
    cleared    \* per symbol: no result was stored since the latest clear()

vars == <<dl, ret, pc, clicked, held, shown, reached, lastCall, cache, lock, ref,
         now, cleared>>

-----------------------------------------------------------------------------
(* Bounds of the model *)

MaxLen == 10       \* longest downloaded series
TickStep == 30     \* seconds that pass in one Tick
MaxTime == 60      \* the clock stops here
ShortLen == 3      \* longest frame whose timestamps are tried out of order

-----------------------------------------------------------------------------
(* Float arithmetic: exact rationals extended with NaN, +inf, -inf *)

Abs(x) == IF x < 0 THEN -x ELSE x

RECURSIVE GCD(_, _)
GCD(a, b) == IF b = 0 THEN a ELSE GCD(b, a % b)

Fin(n, d) ==
    LET g == GCD(Abs(n), d)
    IN  [k |-> "fin", n |-> n \div g, d |-> d \div g]

R(x) == [k |-> "fin", n |-> x, d |-> 1]
NaN  == [k |-> "nan",  n |-> 0, d |-> 1]
PInf == [k |-> "inf",  n |-> 0, d |-> 1]
NInf == [k |-> "ninf", n |-> 0, d |-> 1]

IsNaN(a) == a.k = "nan"
IsFinite(a) == a.k = "fin"
Sign(a) == CASE a.k = "inf"  -> 1
             [] a.k = "ninf" -> -1
             [] a.k = "fin"  -> (IF a.n > 0 THEN 1 ELSE IF a.n < 0 THEN -1 ELSE 0)
             [] OTHER        -> 0
Signed(s) == IF s > 0 THEN PInf ELSE NInf

Neg(a) == CASE a.k = "fin"  -> [k |-> "fin", n |-> -a.n, d |-> a.d]
            [] a.k = "inf"  -> NInf
            [] a.k = "ninf" -> PInf
            [] OTHER        -> NaN

Add(a, b) ==
    IF IsNaN(a) \/ IsNaN(b) THEN NaN
    ELSE IF IsFinite(a) /\ IsFinite(b)
         THEN LET g == GCD(a.d, b.d)
              IN  Fin(a.n * (b.d \div g) + b.n * (a.d \div g), (a.d \div g) * b.d)
    ELSE IF IsFinite(a) THEN b
    ELSE IF IsFinite(b) THEN a
    ELSE IF a.k = b.k THEN a ELSE NaN

Sub(a, b) == Add(a, Neg(b))

Mul(a, b) ==
    IF IsNaN(a) \/ IsNaN(b) THEN NaN
    ELSE IF IsFinite(a) /\ IsFinite(b)
         THEN LET g1 == GCD(Abs(a.n), b.d)
                  g2 == GCD(Abs(b.n), a.d)
              IN  Fin((a.n \div g1) * (b.n \div g2), (a.d \div g2) * (b.d \div g1))
    ELSE IF Sign(a) * Sign(b) = 0 THEN NaN
    ELSE Signed(Sign(a) * Sign(b))

\* float division: x/0 is +-inf, 0/0 is NaN, no exception (numpy semantics);
\* a zero divisor here is always the +0.0 of x - x
Div(a, b) ==
    IF IsNaN(a) \/ IsNaN(b) THEN NaN
    ELSE IF IsFinite(a) /\ IsFinite(b)
         THEN IF b.n = 0
              THEN (IF a.n = 0 THEN NaN ELSE Signed(a.n))
              ELSE Mul(a, IF b.n > 0 THEN [k |-> "fin", n |-> b.d, d |-> b.n]
                                     ELSE [k |-> "fin", n |-> -b.d, d |-> -b.n])
    ELSE IF IsFinite(a) THEN R(0)
    ELSE IF IsFinite(b) THEN Signed(Sign(a) * (IF b.n < 0 THEN -1 ELSE 1))
    ELSE NaN

\* a <= b on floats (false when either is NaN)
Leq(a, b) ==
    IF IsNaN(a) \/ IsNaN(b) THEN FALSE
    ELSE IF IsFinite(a) /\ IsFinite(b) THEN a.n * b.d <= b.n * a.d
    ELSE a.k = "ninf" \/ b.k = "inf"

-----------------------------------------------------------------------------
(* The indicator computation of get_stock_data, lines 49-74 *)

Column(df, name) == [i \in 1..Len(df) |-> R(df[i][name])]

\* Series.ewm(span=span, adjust=False).mean():
\* y[0] = x[0], y[i] = (1-alpha)*y[i-1] + alpha*x[i], alpha = 2/(span+1)
RECURSIVE ewm_loop(_, _, _)
ewm_loop(x, span, y) ==
    IF Len(y) = Len(x) THEN y
    ELSE LET i == Len(y) + 1
             alpha == Fin(2, span + 1)
             next == IF i = 1 THEN x[1]
                     ELSE Add(Mul(Sub(R(1), alpha), y[i - 1]), Mul(alpha, x[i]))
         IN  ewm_loop(x, span, Append(y, next))

ewm(x, span) == ewm_loop(x, span, <<>>)

SeqSub(x, y) == [i \in 1..Len(x) |-> Sub(x[i], y[i])]

\* minimum / maximum of a non-empty set of finite floats
MinOf(S) == CHOOSE m \in S : \A v \in S : Leq(m, v)
MaxOf(S) == CHOOSE m \in S : \A v \in S : Leq(v, m)

\* faulty variant of rolling_min: a shrinking window (min_periods=1)
rolling_min_partial(x, window) ==
    [i \in 1..Len(x) |-> MinOf({x[j] : j \in (IF i > window THEN i - window + 1 ELSE 1)..i})]

\* Series.rolling(window=window).min(): min_periods defaults to the window
\* size, so the first window-1 entries are NaN
rolling_min(x, window) ==
    [i \in 1..Len(x) |->
        IF i < window THEN NaN ELSE MinOf({x[j] : j \in (i - window + 1)..i})]

rolling_max(x, window) ==
    [i \in 1..Len(x) |->
        IF i < window THEN NaN ELSE MaxOf({x[j] : j \in (i - window + 1)..i})]

low_min(df) == rolling_min(Column(df, "Low"), 9)
high_max(df) == rolling_max(Column(df, "High"), 9)

\* faulty variant of RSVColumn: the low is not subtracted from the close
rsv_no_low(close, lo, hi) ==
    [i \in 1..Len(close) |-> Mul(Div(close[i], Sub(hi[i], lo[i])), R(100))]

\* line 60
RSVColumn(close, lo, hi) ==
    [i \in 1..Len(close) |->
        Mul(Div(Sub(close[i], lo[i]), Sub(hi[i], lo[i])), R(100))]

\* faulty variant of smooth: the weights exchanged
smooth_swapped(prev, x) == Add(Mul(Fin(1, 3), prev), Mul(Fin(2, 3), x))

\* line 68 and line 69: one smoothing step
smooth(prev, x) == Add(Mul(Fin(2, 3), prev), Mul(Fin(1, 3), x))

\* lines 63-71: the loop over i in range(1, len(df))
RECURSIVE kd_loop(_, _, _)
kd_loop(RSV, k_values, d_values) ==
    IF Len(k_values) >= Len(RSV) THEN [K |-> k_values, D |-> d_values]
    ELSE LET i == Len(k_values) + 1
             rsv == IF IsNaN(RSV[i]) THEN R(50) ELSE RSV[i]
             k == smooth(k_values[Len(k_values)], rsv)
             d == smooth(d_values[Len(d_values)], k)
         IN  kd_loop(RSV, Append(k_values, k), Append(d_values, d))

\* faulty variant of kd: seeded with the first RSV instead of 50
kd_seed_rsv(RSV) ==
    LET s == IF IsNaN(RSV[1]) THEN R(0) ELSE RSV[1]
    IN  kd_loop(RSV, <<s>>, <<s>>)

\* lines 63-64 and 73-74: the seeds and the resulting columns
kd(RSV) == kd_loop(RSV, <<R(50)>>, <<R(50)>>)

NoColumn == <<>>
None == [kind |-> "None", df |-> <<>>, MACD |-> NoColumn, Signal |-> NoColumn,
         Hist |-> NoColumn, RSV |-> NoColumn, K |-> NoColumn, D |-> NoColumn]
Pending == [kind |-> "pending", df |-> <<>>, MACD |-> NoColumn, Signal |-> NoColumn,
            Hist |-> NoColumn, RSV |-> NoColumn, K |-> NoColumn, D |-> NoColumn]

\* lines 42-76: everything get_stock_data does with the downloaded frame
compute(df) ==
    IF Len(df) = 0 THEN None
    ELSE LET close  == Column(df, "Close")
             exp12  == ewm(close, 12)
             exp26  == ewm(close, 26)
             macd   == SeqSub(exp12, exp26)
             signal == ewm(macd, 9)
             rsv    == RSVColumn(close, low_min(df), high_max(df))
             kdv    == kd(rsv)
         IN  [kind |-> "df", df |-> df, MACD |-> macd, Signal |-> signal,
              Hist |-> SeqSub(macd, signal), RSV |-> rsv, K |-> kdv.K, D |-> kdv.D]

-----------------------------------------------------------------------------
(* Downloaded frames the engine is run on *)

Bar(ts, o, h, l, c) == [Ts |-> ts, Open |-> o, High |-> h, Low |-> l, Close |-> c]

\* <<Open, High, Low, Close>> of the bars before the last two: close stays 2
PrefixBars == { <<2, 4, 1, 2>>, <<2, 2, 2, 2>> }

\* the last two bars also move the close, leave [Low, High], or are not positive
TailBars == { <<2, 3, 1, 2>>, <<2, 2, 2, 2>>, <<3, 3, 1, 3>>, <<1, 4, 1, 2>>,
              <<2, 2, 2, 3>>, <<2, 3, 2, 1>>, <<2, 3, 1, 0>> }

TsKinds == {"ascending", "duplicate", "reversed"}

\* timestamps of the last two bars: in order, equal, or swapped
Stamp(kind, n, i) ==
    IF kind = "ascending" \/ n < 2 \/ i < n - 1 THEN i
    ELSE IF kind = "duplicate" THEN n - 1
    ELSE IF i = n - 1 THEN n ELSE n - 1

Frame(kind, bars) ==
    [i \in 1..Len(bars) |->
        Bar(Stamp(kind, Len(bars), i), bars[i][1], bars[i][2], bars[i][3], bars[i][4])]

\* a frame of n bars: n-2 prefix bars and two tail bars (one bar: a tail bar);
\* the computation never reads the index, so timestamps that are not
\* ascending are tried on frames of at most ShortLen bars
PrefixLen(n) == IF n < 2 THEN 0 ELSE n - 2
TailLen(n) == IF n < 2 THEN n ELSE 2
KindsFor(n) == IF 2 <= n /\ n <= ShortLen THEN TsKinds ELSE {"ascending"}

-----------------------------------------------------------------------------
(* The page: lines 37-43 (cache), 79-82 (plot_chart), 145-191 (script).    *)
(* Streamlit runs the script once per page load or widget event, one run   *)
(* at a time per browser session, and all sessions share st.cache_data.    *)
(* A run is split where the code waits or can be ended: the cache lookup   *)
(* of the decorator, the download that follows a miss (the store comes     *)
(* after it), and the st.* calls that render the block.                    *)

Symbols == {"^TWII", "WTX=F"}
Sessions == {"a", "b"}

\* frames yf.download returns to the page; <<>> is df.empty (no data, or a
\* download yfinance reports as failed)
PageFrames == { <<>>,
                Frame("ascending", << <<2, 3, 1, 2>> >>),
                Frame("ascending", << <<2, 3, 1, 2>>, <<3, 3, 1, 3>> >>) }

NoCall == [sym |-> "none", at |-> 0, hit |-> FALSE]
NoEntry == [has |-> FALSE, at |-> 0, val |-> None]

\* faulty variant of cache_fresh: an entry of exactly ttl seconds is served
cache_fresh_inclusive(entry, t) == entry.has /\ t - entry.at <= 60

\* @st.cache_data(ttl=60): an entry is served while it is younger than ttl
cache_fresh(entry, t) == entry.has /\ t - entry.at < 60

\* line 37: the decorator stores what the function returned, None included
cache_write(c, sym, val, t) ==
    [c EXCEPT ![sym] = [has |-> TRUE, at |-> t, val |-> val]]

\* a cache object of get_stock_data without entries, and its locks
EmptyCache == [s \in Symbols |-> NoEntry]
FreeLocks == [s \in Symbols |-> "free"]

\* Cache objects.  Live is the one the decorator hands to a call that starts
\* now; the others are objects st.cache_data.clear() dropped while calls that
\* started with them were pending (fewer than there are sessions, since the
\* clearing session is not inside a call).
Live == 0
Dropped == 1..(Cardinality(Sessions) - 1)
Objects == {Live} \cup Dropped

\* line 150: st.cache_data.clear() drops the function's cache object, with its
\* entries and locks as they are, to where slot k says (the pending calls go
\* on with it), and a call that starts later gets a new, empty object
cache_clear(c, k) == [o \in Objects |-> IF o = Live THEN EmptyCache
                                        ELSE IF o = k THEN c[Live] ELSE c[o]]
lock_clear(l, k) == [o \in Objects |-> IF o = Live THEN FreeLocks
                                       ELSE IF o = k THEN l[Live] ELSE l[o]]

\* lines 79-140
plot_chart(df, title) ==
    IF df.kind = "None" THEN {<<"error", title>>} ELSE {<<"chart", title>>}

\* lines 164-169 and 182-187: the quote header reads iloc[-1] and iloc[-2]
\* (IndexError on a single bar) and st.markdown shows it; plot_chart follows
quote_header(df, title) ==
    IF Len(df.df) < 2
    THEN [raised |-> TRUE, out |-> {<<"exception", title>>}, chart |-> FALSE]
    ELSE [raised |-> FALSE, out |-> {<<"quote", title>>}, chart |-> TRUE]

\* lines 162-169: the ^TWII block up to its call of plot_chart
tse_block(df) ==
    IF df.kind # "None" THEN quote_header(df, "^TWII")
    ELSE [raised |-> FALSE, out |-> {}, chart |-> FALSE]

\* lines 180-187 and 190-191: the WTX=F block up to its call of plot_chart
future_block(df) ==
    IF df.kind # "None" THEN quote_header(df, "WTX=F")
    ELSE [raised |-> FALSE, out |-> {<<"warning", "WTX=F">>}, chart |-> FALSE]

PageInit ==
    /\ dl = <<>>
    /\ ret = Pending
    /\ pc = [u \in Sessions |-> "idle"]
    /\ clicked = [u \in Sessions |-> FALSE]
    /\ held = [u \in Sessions |-> None]
    /\ shown = [u \in Sessions |-> {}]
    /\ reached = [u \in Sessions |-> [s \in Symbols |-> "no"]]
    /\ lastCall = [u \in Sessions |-> NoCall]
    /\ cache = [o \in Objects |-> EmptyCache]
    /\ lock = [o \in Objects |-> FreeLocks]
    /\ ref = [u \in Sessions |-> Live]
    /\ now = 0
    /\ cleared = [s \in Symbols |-> FALSE]

\* positions inside a get_stock_data call that missed on the first read
InCall == {"tse_wait", "tse_download", "future_wait", "future_download"}

\* the run of session u starts from the top of the script
Restart(u, byButton) ==
    /\ pc' = [pc EXCEPT ![u] = "tse"]
    /\ clicked' = [clicked EXCEPT ![u] = byButton]
    /\ held' = [held EXCEPT ![u] = None]
    /\ shown' = [shown EXCEPT ![u] = {}]
    /\ reached' = [reached EXCEPT ![u] = [s \in Symbols |-> "no"]]
    /\ lastCall' = [lastCall EXCEPT ![u] = NoCall]

\* a page load or rerun: lines 145-156 with the button not pressed
RunStart(u) ==
    /\ pc[u] \in {"idle", "done", "crashed"}
    /\ Restart(u, FALSE)
    /\ UNCHANGED <<dl, ret, cache, lock, ref, now, cleared>>

\* the sessions whose pending call started with the live cache object
PendingLive == { v \in Sessions : pc[v] \in InCall /\ ref[v] = Live }

\* lines 149-151: the button run clears the cache and st.rerun() restarts the
\* script from the top.  A click ends the running script at its next st.*
\* call, so not while the run is inside get_stock_data.  clear() drops the
\* function's cache object without emptying it: the calls of other sessions
\* that are pending go on with the dropped object, its entries and its locks;
\* the next call gets a new, empty one.
Refresh(u) ==
    /\ pc[u] \in {"tse", "tse_render", "tse_chart", "future", "future_render",
                "future_chart", "done", "crashed"}
    /\ IF PendingLive = {}
       THEN /\ cache' = cache_clear(cache, Live)
            /\ lock' = lock_clear(lock, Live)
            /\ ref' = ref
       ELSE LET k == CHOOSE o \in Dropped : \A v \in Sessions : ref[v] # o
            IN  /\ cache' = cache_clear(cache, k)
                /\ lock' = lock_clear(lock, k)
                /\ ref' = [v \in Sessions |-> IF v \in PendingLive THEN k ELSE ref[v]]
    /\ cleared' = [s \in Symbols |-> TRUE]
    /\ Restart(u, TRUE)
    /\ UNCHANGED <<dl, ret, now>>

\* the call returned to session u: from the cache (hit) or after a download
Returns(u, sym, val, hit, render) ==
    /\ lastCall' = [lastCall EXCEPT ![u] = [sym |-> sym, at |-> now, hit |-> hit]]
    /\ held' = [held EXCEPT ![u] = val]
    /\ pc' = [pc EXCEPT ![u] = render]

\* session u's call is over and lets go of its cache object; a dropped object
\* that no pending call holds any more is gone
Release(c, u, empty) ==
    IF ref[u] # Live /\ \A v \in Sessions \ {u} : ref[v] # ref[u]
    THEN [c EXCEPT ![ref[u]] = empty]
    ELSE c

\* lines 37-38: the decorator gets the function's cache object and reads it
\* for the call of line 161 or 179; a hit returns the stored value, a miss
\* goes for the key's compute lock
Lookup(u, sym, at, wait, render) ==
    /\ pc[u] = at
    /\ reached' = [reached EXCEPT ![u][sym] = "entered"]
    /\ ref' = [ref EXCEPT ![u] = Live]
    /\ IF cache_fresh(cache[Live][sym], now)
       THEN Returns(u, sym, cache[Live][sym].val, TRUE, render)
       ELSE /\ pc' = [pc EXCEPT ![u] = wait]
            /\ UNCHANGED <<held, lastCall>>
    /\ UNCHANGED <<dl, ret, clicked, shown, cache, lock, now, cleared>>

\* line 37 after a miss: with the key's compute lock of its cache object the
\* decorator reads that object again; a value stored there meanwhile is
\* returned without a download, otherwise the function body runs holding the
\* lock.  The object is the one the call started with, also when clear() has
\* dropped it since.
Enter(u, sym, wait, download, render) ==
    /\ pc[u] = wait
    /\ lock[ref[u]][sym] = "free"
    /\ IF cache_fresh(cache[ref[u]][sym], now)
       THEN /\ Returns(u, sym, cache[ref[u]][sym].val, TRUE, render)
            /\ cache' = Release(cache, u, EmptyCache)
            /\ lock' = Release(lock, u, FreeLocks)
            /\ ref' = [ref EXCEPT ![u] = Live]
       ELSE /\ lock' = [lock EXCEPT ![ref[u]][sym] = u]
            /\ pc' = [pc EXCEPT ![u] = download]
            /\ UNCHANGED <<held, lastCall, cache, ref>>
    /\ UNCHANGED <<dl, ret, clicked, shown, reached, now, cleared>>

\* lines 40-76: yf.download returns, the indicators are computed, and the
\* decorator stores the result in the cache object the call started with
\* (a dropped one is not seen by later calls) and releases the lock
Fetch(u, sym, download, render) ==
    /\ pc[u] = download
    /\ \E f \in PageFrames :
         \E r \in {compute(f)} :
             /\ Returns(u, sym, r, FALSE, render)
             /\ cache' = Release([cache EXCEPT ![ref[u]] = cache_write(@, sym, r, now)],
                                 u, EmptyCache)
    /\ lock' = Release([lock EXCEPT ![ref[u]][sym] = "free"], u, FreeLocks)
    /\ cleared' = IF ref[u] = Live THEN [cleared EXCEPT ![sym] = FALSE] ELSE cleared
    /\ ref' = [ref EXCEPT ![u] = Live]
    /\ UNCHANGED <<dl, ret, clicked, shown, reached, now>>

\* a block after the call returned, up to its call of plot_chart: what it
\* shows, whether it raises, and whether plot_chart follows
Render(u, sym, render, blk, chart, next) ==
    /\ pc[u] = render
    /\ reached' = [reached EXCEPT ![u][sym] = held[u].kind]
    /\ shown' = [shown EXCEPT ![u] = shown[u] \cup blk.out]
    /\ pc' = [pc EXCEPT ![u] = IF blk.raised THEN "crashed"
                               ELSE IF blk.chart THEN chart ELSE next]
    /\ UNCHANGED <<dl, ret, clicked, held, lastCall, cache, lock, ref, now, cleared>>

\* lines 171 and 189: plot_chart, whose st.error or st.plotly_chart is the
\* next st.* call after the quote header
Chart(u, sym, chart, next) ==
    /\ pc[u] = chart
    /\ shown' = [shown EXCEPT ![u] = shown[u] \cup plot_chart(held[u], sym)]
    /\ pc' = [pc EXCEPT ![u] = next]
    /\ UNCHANGED <<dl, ret, clicked, held, reached, lastCall, cache, lock, ref, now,
                   cleared>>

\* lines 158-171
TseLookup(u) == Lookup(u, "^TWII", "tse", "tse_wait", "tse_render")
TseEnter(u)  == Enter(u, "^TWII", "tse_wait", "tse_download", "tse_render")
TseFetch(u)  == Fetch(u, "^TWII", "tse_download", "tse_render")
TseRender(u) == Render(u, "^TWII", "tse_render", tse_block(held[u]), "tse_chart", "future")
TseChart(u)  == Chart(u, "^TWII", "tse_chart", "future")

\* lines 175-191
FutureLookup(u) == Lookup(u, "WTX=F", "future", "future_wait", "future_render")
FutureEnter(u)  == Enter(u, "WTX=F", "future_wait", "future_download", "future_render")
FutureFetch(u)  == Fetch(u, "WTX=F", "future_download", "future_render")
FutureRender(u) ==
    Render(u, "WTX=F", "future_render", future_block(held[u]), "future_chart", "done")
FutureChart(u)  == Chart(u, "WTX=F", "future_chart", "done")

Tick ==
    /\ now + TickStep <= MaxTime
    /\ now' = now + TickStep
    /\ UNCHANGED <<dl, ret, pc, clicked, held, shown, reached, lastCall, cache, lock,
                   ref, cleared>>

Next ==
    \/ \E u \in Sessions : RunStart(u)
    \/ \E u \in Sessions : Refresh(u)
    \/ \E u \in Sessions : TseLookup(u)
    \/ \E u \in Sessions : TseEnter(u)
    \/ \E u \in Sessions : TseFetch(u)
    \/ \E u \in Sessions : TseRender(u)
    \/ \E u \in Sessions : TseChart(u)
    \/ \E u \in Sessions : FutureLookup(u)
    \/ \E u \in Sessions : FutureEnter(u)
    \/ \E u \in Sessions : FutureFetch(u)
    \/ \E u \in Sessions : FutureRender(u)
    \/ \E u \in Sessions : FutureChart(u)
    \/ Tick

Spec == PageInit /\ [][Next]_vars

-----------------------------------------------------------------------------
(* The engine alone: one call of the computation on a downloaded frame *)

EngineInit ==
    /\ \E n \in 0..MaxLen :
         \E kind \in KindsFor(n), p \in [1..PrefixLen(n) -> PrefixBars],
            t \in [1..TailLen(n) -> TailBars] :
           dl = Frame(kind, p \o t)
    /\ ret = Pending
    /\ pc = [u \in Sessions |-> "idle"]
    /\ clicked = [u \in Sessions |-> FALSE]
    /\ held = [u \in Sessions |-> None]
    /\ shown = [u \in Sessions |-> {}]
    /\ reached = [u \in Sessions |-> [s \in Symbols |-> "no"]]
    /\ lastCall = [u \in Sessions |-> NoCall]
    /\ cache = [o \in Objects |-> EmptyCache]
    /\ lock = [o \in Objects |-> FreeLocks]
    /\ ref = [u \in Sessions |-> Live]
    /\ now = 0
    /\ cleared = [s \in Symbols |-> FALSE]

Compute ==
    /\ ret = Pending
    /\ ret' = compute(dl)
    /\ UNCHANGED <<dl, pc, clicked, held, shown, reached, lastCall, cache, lock, ref,
                   now, cleared>>

EngineNext == Compute

EngineSpec == EngineInit /\ [][EngineNext]_vars

-----------------------------------------------------------------------------
(* Properties of the engine, checked under EngineSpec *)

Returned == ret.kind = "df"
N == Len(dl)

\* the value the loop feeds into K at TLA+ index i (line 66-67)
Fed(i) == IF IsNaN(ret.RSV[i]) THEN R(50) ELSE ret.RSV[i]

\* lowest low / highest high of the bars j in [max(0, i-8), i] (Python indices)
WindowLow(i) ==
    LET S == {dl[j].Low : j \in (IF i > 9 THEN i - 8 ELSE 1)..i}
    IN  CHOOSE m \in S : \A v \in S : m <= v
WindowHigh(i) ==
    LET S == {dl[j].High : j \in (IF i > 9 THEN i - 8 ELSE 1)..i}
    IN  CHOOSE m \in S : \A v \in S : m >= v

InRange(x) == Leq(R(0), x) /\ Leq(x, R(100))

Ascending(df) == \A i \in 1..(Len(df) - 1) : df[i].Ts < df[i + 1].Ts
Positive(df) ==
    \A i \in 1..Len(df) :
        df[i].Open > 0 /\ df[i].High > 0 /\ df[i].Low > 0 /\ df[i].Close > 0
CloseInsideBar(df) ==
    \A i \in 1..Len(df) : df[i].Low <= df[i].Close /\ df[i].Close <= df[i].High

\* C1: for every non-empty series K and D start at the seed 50 at index 0 and
\* for every i >= 1, K[i] = (2/3)*K[i-1] + (1/3)*rsv_i and
\* D[i] = (2/3)*D[i-1] + (1/3)*K[i], rsv_i being RSV[i] when defined, else 50.
C1_Recursion ==
    Returned =>
        /\ Len(ret.K) = N /\ Len(ret.D) = N
        /\ ret.K[1] = R(50) /\ ret.D[1] = R(50)
        /\ \A i \in 2..N :
             /\ ret.K[i] = Add(Mul(Fin(2, 3), ret.K[i - 1]), Mul(Fin(1, 3), Fed(i)))
             /\ ret.D[i] = Add(Mul(Fin(2, 3), ret.D[i - 1]), Mul(Fin(1, 3), ret.K[i]))

C1_Witness ==
    /\ Returned /\ N >= 10
    /\ IsFinite(ret.RSV[10]) /\ IsFinite(ret.K[9])
    /\ ret.K[9] # R(50) /\ ret.K[10] # ret.K[9] /\ ret.D[10] # ret.K[10]

\* C2: at index 0 of every non-empty series, whatever the first bar is,
\* K[0] = D[0] = 50, macd[0] = 0, signal[0] = macd[0] and hist[0] = 0.
C2_FirstBar ==
    Returned =>
        /\ ret.K[1] = R(50) /\ ret.D[1] = R(50)
        /\ ret.MACD[1] = R(0) /\ ret.Signal[1] = ret.MACD[1] /\ ret.Hist[1] = R(0)

C2_Witness ==
    Returned /\ N = 1 /\ dl[1].Close = 3 /\ dl[1].High # dl[1].Low

\* C3 as stated: at every index, also with fewer than 9 bars, low_min and
\* high_max are taken over the partial window [max(0,i-8), i], and the RSV of
\* that window is what the recursion uses for 1 <= i < 8.
C3_PartialWindow ==
    Returned =>
        \A i \in 1..N :
            /\ low_min(dl)[i] = R(WindowLow(i))
            /\ high_max(dl)[i] = R(WindowHigh(i))
            /\ (2 <= i /\ i <= 8 /\ WindowHigh(i) # WindowLow(i)) =>
                 ret.K[i] = Add(Mul(Fin(2, 3), ret.K[i - 1]),
                                Mul(Fin(1, 3),
                                    Fin((dl[i].Close - WindowLow(i)) * 100,
                                        WindowHigh(i) - WindowLow(i))))

\* C3 amended: from index 8 on, low_min and high_max are the extremes of the
\* full window [i-8, i] and RSV[i] is computed from them; below index 8 they
\* and RSV[i] are undefined (NaN) and the recursion is fed 50 instead.
C3_FullWindowOnly ==
    Returned =>
        \A i \in 1..N :
            IF i >= 9
            THEN /\ low_min(dl)[i] = R(WindowLow(i))
                 /\ high_max(dl)[i] = R(WindowHigh(i))
                 /\ ret.RSV[i] = Mul(Div(R(dl[i].Close - WindowLow(i)),
                                         R(WindowHigh(i) - WindowLow(i))), R(100))
            ELSE /\ IsNaN(low_min(dl)[i]) /\ IsNaN(high_max(dl)[i])
                 /\ IsNaN(ret.RSV[i])
                 /\ i >= 2 =>
                      ret.K[i] = Add(Mul(Fin(2, 3), ret.K[i - 1]), Mul(Fin(1, 3), R(50)))

C3_Witness ==
    /\ Returned /\ N >= 9
    /\ WindowHigh(2) # WindowLow(2)
    /\ (dl[2].Close - WindowLow(2)) * 2 # WindowHigh(2) - WindowLow(2)
    /\ IsFinite(ret.RSV[9]) /\ ret.RSV[9] # R(50) /\ ret.K[9] # R(50)

\* C4: whenever the window at i has high_max[i] = low_min[i], the recursion
\* uses exactly 50 at i whatever close[i] is, and every K[i], D[i] is finite.
C4_ZeroRange ==
    Returned =>
        /\ \A i \in 2..N :
             (IsFinite(low_min(dl)[i]) /\ high_max(dl)[i] = low_min(dl)[i]) =>
                 ret.K[i] = Add(Mul(Fin(2, 3), ret.K[i - 1]), Mul(Fin(1, 3), R(50)))
        /\ \A i \in 1..N : IsFinite(ret.K[i]) /\ IsFinite(ret.D[i])

\* C5: an empty series, or one with a non-positive open, high, low or close,
\* makes the computation fail and return no indicator values at all; the
\* failure is InvalidInputError, or the None that stands for it on no data.
C5_InvalidRejected ==
    (ret # Pending /\ (N = 0 \/ ~Positive(dl))) =>
        ret.kind \in {"InvalidInputError", "None"}

\* C6: a series whose timestamps are out of order or duplicated is rejected,
\* never turned into indicator values.
C6_OrderingRejected ==
    (ret # Pending /\ ~Ascending(dl)) => ~Returned

\* C7 as stated: positive prices and ascending timestamps are enough for
\* every K[i] and D[i] to lie in [0, 100]; stated here for the series on
\* which no window divides by zero, so that C4 plays no part.
C7_BoundedAlways ==
    (Returned /\ Positive(dl) /\ Ascending(dl)
       /\ \A i \in 1..N : IsFinite(ret.K[i]) /\ IsFinite(ret.D[i])) =>
        \A i \in 1..N : InRange(ret.K[i]) /\ InRange(ret.D[i])

\* C7 amended: when moreover every bar has low <= close <= high, every K[i]
\* and D[i] lies in [0, 100].
C7_BoundedInsideBar ==
    (Returned /\ Positive(dl) /\ Ascending(dl) /\ CloseInsideBar(dl)) =>
        \A i \in 1..N : InRange(ret.K[i]) /\ InRange(ret.D[i])

C7_Witness ==
    /\ Returned /\ Positive(dl) /\ Ascending(dl) /\ CloseInsideBar(dl)
    /\ N >= 10 /\ ret.RSV[9] = R(100) /\ ret.RSV[10] = R(100)

-----------------------------------------------------------------------------
(* Properties of the page, checked under Spec *)

Notices(u, s) == {e \in shown[u] : e[2] = s /\ e[1] \in {"warning", "error"}}

\* C8: for each symbol, when get_stock_data returned None the page shows a
\* warning or error notice for that symbol.
C8_NoDataNotice ==
    \A u \in Sessions : \A s \in Symbols :
        reached[u][s] = "None" => Notices(u, s) # {}

\* C9: whatever the first symbol's block received, the run reaches and
\* executes the second symbol's block.
C9_SecondBlockReached ==
    \A u \in Sessions :
        (pc[u] \in {"done", "crashed"} /\ reached[u]["^TWII"] # "no") =>
            reached[u]["WTX=F"] # "no"

\* session u makes a get_stock_data call in this step
Calls(u) == lastCall'[u] # lastCall[u] /\ lastCall'[u].sym # "none"

\* C10 as stated, last part: the run the refresh starts is never served from
\* the cache, it downloads again for every symbol it asks for.
C10_RerunRefetches ==
    \A u \in Sessions : (clicked[u] /\ lastCall[u].sym # "none") => ~lastCall[u].hit

\* C10 amended: a call is served from the cache only if the result was stored
\* for the same symbol less than 60 seconds before in the cache the call
\* started with, and it is then the stored result and nothing is stored; a
\* call that started with the cache a refresh has left is not served a
\* symbol cleared since; the refresh leaves that cache empty for every
\* symbol, and a symbol stays absent from it until a call that started after
\* the refresh stores it.
C10_Cache ==
    /\ [][\A u \in Sessions :
            (Calls(u) /\ lastCall'[u].hit) =>
                LET s == lastCall'[u].sym
                    e == cache[ref[u]][s]
                IN  /\ e.has
                    /\ now - e.at < 60
                    /\ held'[u] = e.val
                    /\ ref[u] = Live => ~cleared[s]
                    /\ cache'[Live] = cache[Live]]_vars
    /\ [][((\E u \in Sessions : clicked'[u] /\ ~clicked[u])
             \/ (\E s \in Symbols : cleared'[s] /\ ~cleared[s])) =>
                \A s \in Symbols : ~cache'[Live][s].has]_vars
    /\ [](\A s \in Symbols : cleared[s] => ~cache[Live][s].has)

C10_Witness ==
    \E u \in Sessions :
        /\ clicked[u] /\ lastCall[u].hit /\ lastCall[u].sym = "WTX=F"
        /\ held[u].kind = "None" /\ pc[u] = "future_render"
        /\ lastCall[u].at > cache[Live]["WTX=F"].at

====
